---- MODULE Spec2Model ----
(***************************************************************************)
(* Model of src/app.py (flash-bet): ingestion of football-data.co.uk CSV   *)
(* tables (prepara_dataframe and the multi-file load loop) and the rolling *)
(* statistics engine (calcola_statistiche_squadra).                        *)
(*                                                                         *)
(* A table is [cols, rows]; a loaded row is [idx, v] where idx is the      *)
(* pandas index label and v maps every column of the table to a value.     *)
(* Missing numeric values and dates are NaN, a missing FTR is "nan".       *)
(* A mean is kept exactly as [sum, count] over the non-null values; the    *)
(* mean of no value (pandas NaN) is [sum |-> 0, count |-> 0].              *)
(***************************************************************************)
EXTENDS Integers, Sequences, FiniteSets, TLC

VARIABLES uploaded_files, i, dfs, df, errors, pc, q, tie

vars == <<uploaded_files, i, dfs, df, errors, pc, q, tie>>

\* ------------------------------------------------------------------ bounds
MaxFiles == 3

\* window sizes of the dual-window calls
W5 == 5
W10 == 10

\* ------------------------------------------------------------------ values
NaN == -1

Null(col) == IF col = "FTR" THEN "nan" ELSE NaN

Range(s) == {s[k] : k \in 1..Len(s)}

Min(a, b) == IF a < b THEN a ELSE b

Max(a, b) == IF a > b THEN a ELSE b

RECURSIVE SumSeq(_)
SumSeq(s) == IF s = <<>> THEN 0 ELSE s[1] + SumSeq(Tail(s))

RECURSIVE Flatten(_)
Flatten(ss) == IF ss = <<>> THEN <<>> ELSE ss[1] \o Flatten(Tail(ss))

\* ------------------------------------------------------------------ ingestion
\* pd.to_datetime(dayfirst=True, errors="coerce") on a raw cell <<first, second>>
\* (the two leading number groups of the text): day first, month second;
\* anything that is no date becomes NaT.
ParseDate(raw) ==
    IF raw[1] \in 1..31 /\ raw[2] \in 1..12 THEN raw[2] * 31 + raw[1] ELSE NaN

NoneDf == [ok |-> FALSE, cols |-> {}, rows |-> <<>>]

HasRequiredCols(cols) == {"HomeTeam", "AwayTeam"} \subseteq cols

prepara_dataframe(f) ==
    IF ~f.readable THEN NoneDf
    ELSE LET rows == IF "Date" \in f.cols
                     THEN [k \in 1..Len(f.rows) |->
                             [f.rows[k] EXCEPT !["Date"] = ParseDate(@)]]
                     ELSE f.rows
         IN  IF ~HasRequiredCols(f.cols) THEN NoneDf
             ELSE [ok |-> TRUE, cols |-> f.cols, rows |-> rows]

\* pd.concat(dfs, ignore_index=True, sort=False): schema union, missing cells
\* null, rows in input order, index relabelled 0..N-1.
ConcatDedup(tables) ==
    LET cols == UNION {tables[k].cols : k \in 1..Len(tables)}
        fill(t) == [k \in 1..Len(t.rows) |->
                      [c \in cols |-> IF c \in t.cols THEN t.rows[k][c] ELSE Null(c)]]
        all == Flatten([k \in 1..Len(tables) |-> fill(tables[k])])
        keep == SelectSeq([k \in 1..Len(all) |-> [pos |-> k, v |-> all[k]]],
                          LAMBDA e : \A j \in 1..(e.pos - 1) : all[j] # e.v)
    IN  [cols |-> cols,
         rows |-> [k \in 1..Len(keep) |-> [idx |-> k - 1, v |-> keep[k].v]]]

Concat(tables) ==
    LET cols == UNION {tables[k].cols : k \in 1..Len(tables)}
        fill(t) == [k \in 1..Len(t.rows) |->
                      [c \in cols |-> IF c \in t.cols THEN t.rows[k][c] ELSE Null(c)]]
        all == Flatten([k \in 1..Len(tables) |-> fill(tables[k])])
    IN  [cols |-> cols,
         rows |-> [k \in 1..Len(all) |-> [idx |-> k - 1, v |-> all[k]]]]

EmptyDf == [cols |-> {}, rows |-> <<>>]

\* ------------------------------------------------------------------ engine
\* df[(df["HomeTeam"] == team) | (df["AwayTeam"] == team)].copy()
FilterTeam(d, team) ==
    SelectSeq(d.rows, LAMBDA r : r.v["HomeTeam"] = team \/ r.v["AwayTeam"] = team)

\* team_matches.sort_values("Date", ascending=False): kind is left at its
\* default "quicksort", which pandas documents as not stable, and na_position
\* at "last".  Dated rows come in non-increasing date order; the order the
\* build gives to rows of equal date is the rank tb[idx] (the identity when
\* the build happens to be stable); null-dated rows follow in their order.
SortValues(rows, tb) ==
    LET dated == SelectSeq(rows, LAMBDA r : r.v["Date"] # NaN)
        nans == SelectSeq(rows, LAMBDA r : r.v["Date"] = NaN)
        Before(a, b) == \/ a.v["Date"] > b.v["Date"]
                        \/ a.v["Date"] = b.v["Date"] /\ tb[a.idx] < tb[b.idx]
        sorted == [k \in 1..Len(dated) |->
                     CHOOSE r \in Range(dated) :
                        Cardinality({s \in Range(dated) : Before(s, r)}) = k - 1]
    IN  sorted \o nans

head_minus_one(rows, n) == SubSeq(rows, 1, Min(Max(n - 1, 0), Len(rows)))

tail(rows, n) == SubSeq(rows, Len(rows) - Min(Max(n, 0), Len(rows)) + 1, Len(rows))

\* team_matches.head(n_matches)
head(rows, n) ==
    IF n >= 0 THEN SubSeq(rows, 1, Min(n, Len(rows)))
    ELSE SubSeq(rows, 1, Max(Len(rows) + n, 0))

\* the symmetric home/away pairs, in the order add_stat is called
StatTable ==
    << <<"Gol fatti (FT)", "FTHG", "FTAG">>,
       <<"Gol subiti (FT)", "FTAG", "FTHG">>,
       <<"Gol fatti (HT)", "HTHG", "HTAG">>,
       <<"Gol subiti (HT)", "HTAG", "HTHG">>,
       <<"Tiri totali", "HS", "AS">>,
       <<"Tiri in porta", "HST", "AST">>,
       <<"Calci d'angolo", "HC", "AC">>,
       <<"Falli commessi", "HF", "AF">>,
       <<"Ammonizioni", "HY", "AY">>,
       <<"Espulsioni", "HR", "AR">> >>

\* vals = Series(NaN); vals[mask_home] = home column; vals[mask_away] = away
\* column: the second assignment overwrites the first where both masks hold.
PerspectiveVals(tm, team, home_col, away_col) ==
    LET vals0 == [k \in 1..Len(tm) |-> NaN]
        vals1 == [k \in 1..Len(tm) |->
                    IF tm[k].v["HomeTeam"] = team THEN tm[k].v[home_col] ELSE vals0[k]]
    IN  [k \in 1..Len(tm) |->
           IF tm[k].v["AwayTeam"] = team THEN tm[k].v[away_col] ELSE vals1[k]]

\* vals.mean(): NaN is skipped; the mean of no value is NaN
Mean(vals) ==
    LET nonnull == SelectSeq(vals, LAMBDA x : x # NaN)
    IN  [sum |-> SumSeq(nonnull), count |-> Len(nonnull)]

OutcomeNoElse(row, team) ==
    LET res_code == row.v["FTR"]
    IN  IF row.v["HomeTeam"] = team
        THEN (IF res_code = "H" THEN "W" ELSE IF res_code = "A" THEN "L"
              ELSE IF res_code = "D" THEN "D" ELSE "?")
        ELSE (IF res_code = "A" THEN "W" ELSE IF res_code = "H" THEN "L"
              ELSE IF res_code = "D" THEN "D" ELSE "?")

OutcomeHomeOnly(row, team) ==
    LET res_code == row.v["FTR"]
    IN  IF res_code = "H" THEN "W" ELSE IF res_code = "A" THEN "L" ELSE "D"

\* the body of the loop over team_matches.iterrows()
Outcome(row, team) ==
    LET res_code == row.v["FTR"]
    IN  IF row.v["HomeTeam"] = team
        THEN (IF res_code = "H" THEN "W" ELSE IF res_code = "A" THEN "L" ELSE "D")
        ELSE (IF res_code = "A" THEN "W" ELSE IF res_code = "H" THEN "L" ELSE "D")

\* results.count(code)
CountOutcome(tm, team, code) ==
    Cardinality({k \in 1..Len(tm) : Outcome(tm[k], team) = code})

NoneStats == [present |-> FALSE, n_eff |-> 0, map |-> [l \in {} |-> 0]]

\* the stats dict after the add_stat calls and the W/D/L block, and the frame
\* built from it ("Media ultime {n_eff} partite"), or None when it is empty
BuildStats(cols, tm, team) ==
    LET n_eff == Len(tm)
        means == {k \in 1..Len(StatTable) :
                     StatTable[k][2] \in cols /\ StatTable[k][3] \in cols}
        labels == {StatTable[k][1] : k \in means}
                     \cup (IF "FTR" \in cols THEN {"Vittorie", "Pareggi", "Sconfitte"} ELSE {})
        value(l) ==
            IF l = "Vittorie" THEN CountOutcome(tm, team, "W")
            ELSE IF l = "Pareggi" THEN CountOutcome(tm, team, "D")
            ELSE IF l = "Sconfitte" THEN CountOutcome(tm, team, "L")
            ELSE LET k == CHOOSE j \in means : StatTable[j][1] = l
                 IN  Mean(PerspectiveVals(tm, team, StatTable[k][2], StatTable[k][3]))
    IN  IF labels = {} THEN NoneStats
        ELSE [present |-> TRUE, n_eff |-> n_eff, map |-> [l \in labels |-> value(l)]]

calcola_no_early_return(d, team, n_matches, tb) ==
    LET team_matches == FilterTeam(d, team)
        ordered == IF "Date" \in d.cols THEN SortValues(team_matches, tb) ELSE team_matches
        kept == head(ordered, n_matches)
    IN  [matches |-> kept, stats |-> BuildStats(d.cols, kept, team)]

calcola_statistiche_squadra(d, team, n_matches, tb) ==
    LET team_matches == FilterTeam(d, team)
        ordered == IF "Date" \in d.cols THEN SortValues(team_matches, tb) ELSE team_matches
        kept == head(ordered, n_matches)
    IN  IF team_matches = <<>> THEN [matches |-> team_matches, stats |-> NoneStats]
        ELSE [matches |-> kept, stats |-> BuildStats(d.cols, kept, team)]

DatasetClobbered(d, team, n_matches, tb) ==
    [d EXCEPT !.rows = head(FilterTeam(d, team), n_matches)]

\* the dataset after a call: the filter result is copied (.copy()), sort_values
\* and head return new frames, and nothing is assigned into df
DatasetAfterCall(d, team, n_matches, tb) == d

\* ------------------------------------------------------------------ inputs
Csv(cols, rows) == [readable |-> TRUE, cols |-> cols, rows |-> rows]

Unreadable == [readable |-> FALSE, cols |-> {}, rows |-> <<>>]

Wdl(h, a, r) ==
    Csv({"HomeTeam", "AwayTeam", "FTR"}, <<[HomeTeam |-> h, AwayTeam |-> a, FTR |-> r]>>)

Dated(h, a, date, r) ==
    Csv({"HomeTeam", "AwayTeam", "Date", "FTR"},
        <<[HomeTeam |-> h, AwayTeam |-> a, Date |-> date, FTR |-> r]>>)

Goals(h, a, r, hg, ag) ==
    Csv({"HomeTeam", "AwayTeam", "FTR", "FTHG", "FTAG"},
        <<[HomeTeam |-> h, AwayTeam |-> a, FTR |-> r, FTHG |-> hg, FTAG |-> ag]>>)

Shots(h, a, hg, ag, hst, ast) ==
    Csv({"HomeTeam", "AwayTeam", "FTHG", "FTAG", "HST", "AST"},
        <<[HomeTeam |-> h, AwayTeam |-> a, FTHG |-> hg, FTAG |-> ag,
           HST |-> hst, AST |-> ast]>>)

TeamsOnly(h, a) ==
    Csv({"HomeTeam", "AwayTeam"}, <<[HomeTeam |-> h, AwayTeam |-> a]>>)

NoAwayTeam == Csv({"HomeTeam", "FTR"}, <<[HomeTeam |-> "A", FTR |-> "H"]>>)

NoHomeTeam == Csv({"AwayTeam", "FTR"}, <<[AwayTeam |-> "A", FTR |-> "A"]>>)

HeaderOnly == Csv({"HomeTeam", "AwayTeam", "FTR"}, <<>>)

WdlFiles ==
    { Wdl("A", "B", "H"), Wdl("A", "B", "A"), Wdl("A", "B", "D"), Wdl("A", "B", "nan"),
      Wdl("B", "A", "H"), Wdl("B", "A", "A"), Wdl("B", "A", "X"),
      Wdl("A", "A", "H"), Wdl("A", "A", "A"), Wdl("B", "B", "D"),
      TeamsOnly("A", "B"), NoAwayTeam }

DateFiles ==
    { Dated("A", "B", <<1, 2>>, "H"), Dated("B", "A", <<1, 2>>, "A"),
      Dated("A", "B", <<2, 1>>, "D"), Dated("A", "A", <<0, 0>>, "H"),
      Wdl("A", "B", "H") }

StatFiles ==
    { Goals("A", "B", "H", 2, 1), Goals("B", "A", "H", 0, 3), Goals("A", "A", "H", 2, 1),
      Goals("A", "B", "D", NaN, NaN), Shots("A", "B", 1, 0, 5, 2),
      Shots("B", "A", 1, 1, NaN, 4), TeamsOnly("B", "B") }

LoadFiles ==
    { Unreadable, NoAwayTeam, NoHomeTeam, HeaderOnly,
      TeamsOnly("A", "B"), Wdl("B", "A", "H"), Dated("A", "B", <<1, 2>>, "D"),
      Dated("B", "A", <<0, 0>>, "A") }

QueryTeams == {"A", "B"}

\* <<first window, second window>> of one dual-window composition; <<5, 10>>
\* is the pair the page uses
WindowPairs == {<<1, 2>>, <<2, 2>>, <<2, W5>>, <<W5, W10>>}

RowIds == 0..(MaxFiles - 1)

Identity == [k \in RowIds |-> k]

TieBreaks == {f \in [RowIds -> RowIds] : \A x, y \in RowIds : f[x] = f[y] => x = y}

FileLists(U) == UNION {[1..k -> U] : k \in 0..MaxFiles}

\* ------------------------------------------------------------------ program
NoResult == [matches |-> <<>>, stats |-> NoneStats]

NoQuery == [called |-> FALSE, team |-> "", n1 |-> 0, n2 |-> 0, seen |-> EmptyDf,
            r1 |-> NoResult, r2 |-> NoResult]

InitWith(U, T) ==
    /\ uploaded_files \in FileLists(U)
    /\ tie \in T
    /\ i = 1
    /\ dfs = <<>>
    /\ df = EmptyDf
    /\ errors = 0
    /\ pc = "upload"
    /\ q = NoQuery

Init == InitWith(WdlFiles, {Identity})

InitDates == InitWith(DateFiles, TieBreaks)

InitStats == InitWith(StatFiles, {Identity})

InitLoad == InitWith(LoadFiles, {Identity})

\* if not uploaded_files: st.info(...); st.stop()
CheckUploaded ==
    /\ pc = "upload"
    /\ pc' = IF uploaded_files = <<>> THEN "stopped" ELSE "loading"
    /\ UNCHANGED <<uploaded_files, i, dfs, df, errors, q, tie>>

\* one iteration of: for f in uploaded_files
LoadFile ==
    /\ pc = "loading"
    /\ i <= Len(uploaded_files)
    /\ LET df_single == prepara_dataframe(uploaded_files[i])
       IN  /\ dfs' = IF df_single.ok
                     THEN Append(dfs, [cols |-> df_single.cols, rows |-> df_single.rows])
                     ELSE dfs
           /\ errors' = IF df_single.ok THEN errors ELSE errors + 1
    /\ i' = i + 1
    /\ UNCHANGED <<uploaded_files, df, pc, q, tie>>

\* after the loop: if not dfs: st.error(...); st.stop(); else df = pd.concat(...)
FinishLoading ==
    /\ pc = "loading"
    /\ i > Len(uploaded_files)
    /\ IF dfs = <<>>
       THEN /\ errors' = errors + 1
            /\ pc' = "stopped"
            /\ df' = df
       ELSE /\ df' = Concat(dfs)
            /\ pc' = "ready"
            /\ errors' = errors
    /\ UNCHANGED <<uploaded_files, i, dfs, q, tie>>

\* the two calls made for one team: calcola_statistiche_squadra(df, team, n1)
\* and then calcola_statistiche_squadra(df, team, n2)
Query(team, n1, n2) ==
    /\ pc = "ready"
    /\ LET first == calcola_statistiche_squadra(df, team, n1, tie)
           d1 == DatasetAfterCall(df, team, n1, tie)
           second == calcola_statistiche_squadra(d1, team, n2, tie)
           d2 == DatasetAfterCall(d1, team, n2, tie)
       IN  /\ q' = [called |-> TRUE, team |-> team, n1 |-> n1, n2 |-> n2, seen |-> df,
                    r1 |-> first, r2 |-> second]
           /\ df' = d2
    /\ UNCHANGED <<uploaded_files, i, dfs, errors, pc, tie>>

Next ==
    \/ CheckUploaded
    \/ LoadFile
    \/ FinishLoading
    \/ \E team \in QueryTeams, w \in WindowPairs : Query(team, w[1], w[2])

Spec == Init /\ [][Next]_vars

SpecDates == InitDates /\ [][Next]_vars

SpecStats == InitStats /\ [][Next]_vars

SpecLoad == InitLoad /\ [][Next]_vars

\* ------------------------------------------------------------------ claims
\* the two calls of the last composition, each with the dataset it was given
Calls ==
    IF q.called
    THEN {[team |-> q.team, n |-> q.n1, res |-> q.r1],
          [team |-> q.team, n |-> q.n2, res |-> q.r2]}
    ELSE {}

Involves(r, t) == r.v["HomeTeam"] = t \/ r.v["AwayTeam"] = t

\* m: the number of rows of the dataset given to the calls that involve team t
MatchCount(t) ==
    Cardinality({k \in 1..Len(q.seen.rows) : Involves(q.seen.rows[k], t)})

Selected(c) == {c.res.matches[k] : k \in 1..Len(c.res.matches)}

Count(c, P(_)) == Cardinality({r \in Selected(c) : P(r)})

\* C1: a team that appears in no row of the dataset gets an empty match
\* sequence and a null stats result, whatever the window size.
C1_AbsentTeam ==
    \A c \in Calls :
        MatchCount(c.team) = 0 => c.res.matches = <<>> /\ ~c.res.stats.present

C1_Witness ==
    /\ q.called
    /\ MatchCount(q.team) = 0
    /\ "FTR" \in q.seen.cols
    /\ Len(q.seen.rows) >= 2

\* C2: with m >= 1 matching rows and windows n' > n >= m, the call with
\* n keeps m rows and labels the stats with m, and the call with n' returns
\* the same matches and the same stats.
C2_WindowBeyondCount ==
    (q.called /\ MatchCount(q.team) >= 1 /\ q.n1 >= MatchCount(q.team) /\ q.n2 > q.n1)
        => /\ Len(q.r1.matches) = MatchCount(q.team)
           /\ q.r1.stats.present => q.r1.stats.n_eff = MatchCount(q.team)
           /\ q.r2.matches = q.r1.matches
           /\ q.r2.stats = q.r1.stats

C2_Witness ==
    /\ q.called
    /\ MatchCount(q.team) = 2
    /\ q.n1 = 2
    /\ q.n2 = W5
    /\ q.r1.stats.present
    /\ "Date" \in q.seen.cols

\* C3: when FTR is a column and the stats are not null, Vittorie + Pareggi +
\* Sconfitte equals n_eff, the number of selected matches.
C3_WdlSum ==
    \A c \in Calls :
        (c.res.stats.present /\ "FTR" \in q.seen.cols)
            => /\ {"Vittorie", "Pareggi", "Sconfitte"} \subseteq DOMAIN c.res.stats.map
               /\ c.res.stats.map["Vittorie"] + c.res.stats.map["Pareggi"]
                     + c.res.stats.map["Sconfitte"] = Len(c.res.matches)
               /\ c.res.stats.n_eff = Len(c.res.matches)

C3_Witness ==
    \E c \in Calls :
        /\ c.res.stats.present
        /\ Len(c.res.matches) = 3
        /\ \E r \in Selected(c) : r.v["FTR"] = "nan"
        /\ \E r \in Selected(c) : r.v["FTR"] = "X"

IsHome(r, t) == r.v["HomeTeam"] = t

IsAway(r, t) == r.v["AwayTeam"] = t

WdlPresent(c) == c.res.stats.present /\ "FTR" \in q.seen.cols

\* C4 as stated: Win if (home and H) or (away and A), Loss if (home and A) or
\* (away and H), Draw for every other FTR value; the three counts are the
\* numbers of selected rows with each outcome.
C4_AsStated ==
    \A c \in Calls :
        WdlPresent(c) =>
            /\ c.res.stats.map["Vittorie"] =
                 Count(c, LAMBDA r : \/ IsHome(r, c.team) /\ r.v["FTR"] = "H"
                                     \/ IsAway(r, c.team) /\ r.v["FTR"] = "A")
            /\ c.res.stats.map["Sconfitte"] =
                 Count(c, LAMBDA r : \/ IsHome(r, c.team) /\ r.v["FTR"] = "A"
                                     \/ IsAway(r, c.team) /\ r.v["FTR"] = "H")
            /\ c.res.stats.map["Pareggi"] =
                 Count(c, LAMBDA r : r.v["FTR"] \notin {"H", "A"})

\* C4 amended: the away reading applies only to rows where the team is not
\* the HomeTeam.  Win if (home and H) or (not home and A), Loss if (home and
\* A) or (not home and H), Draw for every other FTR value.
C4_HomeFirst ==
    \A c \in Calls :
        WdlPresent(c) =>
            /\ c.res.stats.map["Vittorie"] =
                 Count(c, LAMBDA r : \/ IsHome(r, c.team) /\ r.v["FTR"] = "H"
                                     \/ ~IsHome(r, c.team) /\ r.v["FTR"] = "A")
            /\ c.res.stats.map["Sconfitte"] =
                 Count(c, LAMBDA r : \/ IsHome(r, c.team) /\ r.v["FTR"] = "A"
                                     \/ ~IsHome(r, c.team) /\ r.v["FTR"] = "H")
            /\ c.res.stats.map["Pareggi"] =
                 Count(c, LAMBDA r : r.v["FTR"] \notin {"H", "A"})

C4_Witness ==
    \E c \in Calls :
        /\ WdlPresent(c)
        /\ Len(c.res.matches) = 3
        /\ \E r \in Selected(c) : IsHome(r, c.team) /\ IsAway(r, c.team) /\ r.v["FTR"] = "A"
        /\ \E r \in Selected(c) : ~IsHome(r, c.team) /\ r.v["FTR"] = "A"
        /\ \E r \in Selected(c) : ~IsAway(r, c.team) /\ r.v["FTR"] = "nan"

\* the team's matches in recency order, before truncation
Recency(t) ==
    IF "Date" \in q.seen.cols THEN SortValues(FilterTeam(q.seen, t), tie)
    ELSE FilterTeam(q.seen, t)

\* C5: for a positive window n and m matching rows, the returned matches are
\* exactly the first min(n, m) rows of the team's matches in recency order,
\* and the stats are labelled with that count, never with a larger n.
C5_Truncation ==
    \A c \in Calls :
        c.n > 0 =>
            /\ Len(c.res.matches) = Min(c.n, MatchCount(c.team))
            /\ c.res.matches = SubSeq(Recency(c.team), 1, Min(c.n, MatchCount(c.team)))
            /\ c.res.stats.present => c.res.stats.n_eff = Min(c.n, MatchCount(c.team))

C5_Witness ==
    /\ q.called
    /\ MatchCount(q.team) = 3
    /\ q.n1 = 1
    /\ q.n2 = 2
    /\ q.r1.stats.present
    /\ "Date" \in q.seen.cols
    /\ q.r2.matches[1].idx # 0

\* a table passes validation when it can be read and has both team columns
Valid(f) == f.readable /\ "HomeTeam" \in f.cols /\ "AwayTeam" \in f.cols

ValidAmong(files) == SelectSeq(files, Valid)

\* the rows of one input table as rows over the merged schema
RowsOver(f, cols) ==
    [k \in 1..Len(f.rows) |->
        [c \in cols |-> IF c \notin f.cols THEN Null(c)
                        ELSE IF c = "Date" THEN ParseDate(f.rows[k][c])
                        ELSE f.rows[k][c]]]

RECURSIVE RowsOfAll(_, _)
RowsOfAll(files, cols) ==
    IF files = <<>> THEN <<>>
    ELSE RowsOver(files[1], cols) \o RowsOfAll(Tail(files), cols)

\* C6: the merged dataset is the row-wise concatenation, in input order and
\* with no row dropped or deduplicated, of the tables that have both HomeTeam
\* and AwayTeam; a failing table at any position does not stop the tables
\* before or after it from being loaded; and when no table passes, the
\* operation stops and the engine is never invoked.
C6_MergedDataset ==
    LET valid == ValidAmong(uploaded_files)
        cols == UNION {valid[k].cols : k \in 1..Len(valid)}
    IN  /\ pc = "loading" => Len(dfs) = Len(ValidAmong(SubSeq(uploaded_files, 1, i - 1)))
        /\ pc = "ready" =>
              /\ valid # <<>>
              /\ df.cols = cols
              /\ [k \in 1..Len(df.rows) |-> df.rows[k].v] = RowsOfAll(valid, cols)
        /\ (valid = <<>> /\ pc \notin {"upload", "loading"}) => pc = "stopped"
        /\ pc = "stopped" => valid = <<>>
        /\ q.called => pc = "ready"

C6_Witness ==
    /\ pc = "ready"
    /\ Len(uploaded_files) = 3
    /\ Valid(uploaded_files[1])
    /\ ~Valid(uploaded_files[2])
    /\ uploaded_files[3] = uploaded_files[1]
    /\ Len(df.rows) = 2
    /\ q.called

PresentPairs ==
    {k \in 1..Len(StatTable) :
        StatTable[k][2] \in q.seen.cols /\ StatTable[k][3] \in q.seen.cols}

\* C8 as stated: the value of a selected row that enters the mean is the home
\* column when the team is that row's HomeTeam (self-matches included, the
\* side the W/D/L labelling uses) and the away column otherwise.
C8_AsStated ==
    \A c \in Calls : \A k \in PresentPairs :
        c.res.stats.present =>
            LET tm == c.res.matches
                claimed == [j \in 1..Len(tm) |->
                              IF IsHome(tm[j], c.team) THEN tm[j].v[StatTable[k][2]]
                              ELSE tm[j].v[StatTable[k][3]]]
                nonnull == SelectSeq(claimed, LAMBDA x : x # NaN)
            IN  nonnull # <<>> =>
                   c.res.stats.map[StatTable[k][1]] =
                       [sum |-> SumSeq(nonnull), count |-> Len(nonnull)]

\* C9 as stated: with a Date column the selected matches are in non-increasing
\* date order, null dates after every date, and rows of equal date (or both
\* null) keep their dataset order; without one they keep the dataset order.
C9_AsStated ==
    \A c \in Calls :
        LET tm == c.res.matches
        IN  \A j, k \in 1..Len(tm) :
               j < k =>
                  IF "Date" \in q.seen.cols
                  THEN LET dj == tm[j].v["Date"]
                           dk == tm[k].v["Date"]
                       IN  /\ dj = NaN => dk = NaN
                           /\ (dj # NaN /\ dk # NaN) => dj >= dk
                           /\ dj = dk => tm[j].idx < tm[k].idx
                  ELSE tm[j].idx < tm[k].idx

\* C10 as stated: a stat pair present in the dataset whose team-perspective
\* value is null in every selected row is left out of the stats mapping;
\* otherwise its value is the mean over the selected rows with a value.
C10_AsStated ==
    \A c \in Calls : \A k \in PresentPairs :
        c.res.stats.present =>
            LET vals == PerspectiveVals(c.res.matches, c.team, StatTable[k][2], StatTable[k][3])
                nonnull == SelectSeq(vals, LAMBDA x : x # NaN)
            IN  IF nonnull = <<>>
                THEN StatTable[k][1] \notin DOMAIN c.res.stats.map
                ELSE /\ StatTable[k][1] \in DOMAIN c.res.stats.map
                     /\ c.res.stats.map[StatTable[k][1]] =
                           [sum |-> SumSeq(nonnull), count |-> Len(nonnull)]

====
